---- MODULE Spec2Model ----
(***************************************************************************)
(* Crossword CSP solver of Project-3/crossword/generate.py                 *)
(* (CrosswordCreator): node consistency, AC-3 propagation and backtracking *)
(* search, modelled step by step.                                          *)
(*                                                                         *)
(* Words are sequences of one-letter strings, so that word[i] of the       *)
(* source (0-based) is word[i + 1] here.  Python sets have no fixed        *)
(* iteration order: every loop over a set is modelled as a choice among    *)
(* all orders of its elements.                                             *)
(***************************************************************************)
EXTENDS Integers, Sequences, FiniteSets, TLC

VARIABLES
    crossword,   \* self.crossword: [variables, words]
    domains,     \* self.domains: variable -> set of words
    pc,          \* position of the control flow inside solve()
    todo,        \* enforce_node_consistency: variables still to visit
    queue,       \* ac3: the work queue of arcs
    caller,      \* who called the running ac3: "solve" or "backtrack"
    ac3ret,      \* return value of the last finished ac3 call
    initialAc3,  \* what the ac3 call of solve() returned ("none" before)
    assignment,  \* the dict shared by all backtrack calls
    stack,       \* frames of the active backtrack calls, innermost last
    retval,      \* value returned by the backtrack call that just ended
    result,      \* value returned by solve()
    lastRevise,  \* the last revise call: arguments, domains before and
                 \* after, value returned
    lastConsistent, \* the last consistent() call: argument, value returned
    firstResult, \* what the first solve() returned, once solve() is called
                 \* again on the same CrosswordCreator
    board,       \* tictactoe.py: the board of the game being played
    aiSide,      \* tictactoe.py: the side whose moves minimax() chooses
    field,       \* minesweeper.py: Minesweeper (height, width, mines)
    ai           \* minesweeper.py: MinesweeperAI

\* the variables of the other programs of the repository
others == <<board, aiSide, field, ai>>

\* the variables of the crossword solver
solver == <<crossword, domains, pc, todo, queue, caller, ac3ret, initialAc3,
            assignment, stack, retval, result, lastRevise, lastConsistent,
            firstResult>>

vars == <<crossword, domains, pc, todo, queue, caller, ac3ret, initialAc3,
          assignment, stack, retval, result, lastRevise, lastConsistent,
          firstResult, board, aiSide, field, ai>>

----------------------------------------------------------------------------
(* Bounds of the model *)

\* largest number of words in the dictionary
MaxWords == 3

----------------------------------------------------------------------------
(* Puzzle Model (crossword.py: Variable, Crossword) *)

ACROSS == "across"
DOWN == "down"

None == <<>>

Variable(i, j, direction, length) ==
    [i |-> i, j |-> j, direction |-> direction, length |-> length]

\* Variable.cells: the k-th cell of the slot, k = 0 .. length - 1
Cells(v) ==
    [k \in 1..v.length |->
        <<v.i + (IF v.direction = DOWN THEN k - 1 ELSE 0),
          v.j + (IF v.direction = ACROSS THEN k - 1 ELSE 0)>>]

\* Crossword.overlaps[x, y]: None, or the 0-based indices (i, j) of the
\* shared cell in x and in y
Overlap(x, y) ==
    LET cx == Cells(x)
        cy == Cells(y)
        shared == {p \in (1..x.length) \X (1..y.length) : cx[p[1]] = cy[p[2]]}
    IN  IF shared = {} THEN None
        ELSE LET p == CHOOSE q \in shared : TRUE IN <<p[1] - 1, p[2] - 1>>

\* Crossword.neighbors(var)
Neighbors(var) ==
    {v \in crossword.variables \ {var} : Overlap(v, var) # None}

\* The grids the model is run on.
\*                               _#_
\*   ___      __      ___        ___
\*            _#      _#_        _#_
Structures ==
    { {Variable(0, 0, ACROSS, 3)},
      {Variable(0, 0, ACROSS, 2), Variable(0, 0, DOWN, 2)},
      {Variable(0, 0, ACROSS, 3), Variable(0, 0, DOWN, 2),
       Variable(0, 2, DOWN, 2)},
      {Variable(1, 0, ACROSS, 3), Variable(0, 0, DOWN, 3),
       Variable(0, 2, DOWN, 3)} }

\* The words a dictionary is drawn from.
WordPool ==
    { <<"a", "b">>, <<"b", "a">>, <<"b", "b">>,
      <<"a", "b", "b">>, <<"b", "a", "b">>, <<"b", "a", "a">>,
      <<"a", "b", "c">>,
      <<"a", "b", "b", "a">> }

Dictionaries ==
    {d \in SUBSET WordPool : Cardinality(d) >= 1 /\ Cardinality(d) <= MaxWords}

----------------------------------------------------------------------------
(* Helpers *)

\* every order in which a loop can visit the elements of a set
Orders(S) ==
    {s \in [1..Cardinality(S) -> S] : \A a, b \in DOMAIN s : a # b => s[a] # s[b]}

RECURSIVE Concat(_)
Concat(seqs) ==
    IF seqs = <<>> THEN <<>> ELSE Head(seqs) \o Concat(Tail(seqs))

RECURSIVE Sum(_, _)
Sum(f, S) ==
    IF S = {} THEN 0
    ELSE LET e == CHOOSE e \in S : TRUE IN f[e] + Sum(f, S \ {e})

Top == stack[Len(stack)]

SetTop(frame) == [stack EXCEPT ![Len(stack)] = frame]

\* Pop with the entry left in the dict
PopNothing(dict, var) == dict

Pop(dict, var) == [v \in DOMAIN dict \ {var} |-> dict[v]]

\* Bind that leaves the dict as it was
BindNothing(dict, var, value) == dict

Bind(dict, var, value) ==
    [v \in DOMAIN dict \cup {var} |-> IF v = var THEN value ELSE dict[v]]

----------------------------------------------------------------------------
(* enforce_node_consistency *)

\* NodeConsistentDomain removing only the words that are too short
NodeConsistentShorter(var, domain, order) ==
    domain \ {word \in domain : Len(word) < var.length}

\* NodeConsistentDomain looping over the domain itself, not over a copy:
\* after a removal the loop misses the word that comes next
RECURSIVE NodeConsistentSkipping(_, _, _)
NodeConsistentSkipping(var, domain, order) ==
    IF order = <<>> THEN domain
    ELSE LET word == Head(order) IN
         IF Len(word) # var.length
         THEN NodeConsistentSkipping(var, domain \ {word},
                                     IF Len(order) > 1 THEN Tail(Tail(order))
                                     ELSE <<>>)
         ELSE NodeConsistentSkipping(var, domain, Tail(order))

\* the body of the loop over the variables: the words of a copy of the
\* domain are visited in `order`, and those of the wrong length removed
\* from the domain
RECURSIVE NodeConsistentDomain(_, _, _)
NodeConsistentDomain(var, domain, order) ==
    IF order = <<>> THEN domain
    ELSE LET word == Head(order) IN
         IF Len(word) # var.length
         THEN NodeConsistentDomain(var, domain \ {word}, Tail(order))
         ELSE NodeConsistentDomain(var, domain, Tail(order))

----------------------------------------------------------------------------
(* revise *)

\* Revise asking every word of y, not some word of y, to match
ReviseAll(doms, x, y) ==
    LET overlap == Overlap(x, y) IN
    IF overlap = None THEN [domains |-> doms, revised |-> FALSE]
    ELSE
        LET i == overlap[1]
            j == overlap[2]
            removed == {x_word \in doms[x] :
                            \E y_word \in doms[y] : x_word[i + 1] # y_word[j + 1]}
        IN  [domains |-> [doms EXCEPT ![x] = @ \ removed],
             revised |-> removed # {}]

\* Revise that empties domain(x) when x and y do not overlap
ReviseNoOverlapEmpties(doms, x, y) ==
    LET overlap == Overlap(x, y) IN
    IF overlap = None
    THEN [domains |-> [doms EXCEPT ![x] = {}], revised |-> doms[x] # {}]
    ELSE
        LET i == overlap[1]
            j == overlap[2]
            removed == {x_word \in doms[x] :
                            ~\E y_word \in doms[y] : x_word[i + 1] = y_word[j + 1]}
        IN  [domains |-> [doms EXCEPT ![x] = @ \ removed],
             revised |-> removed # {}]

\* Revise that rebuilds domain(x) from the dictionary: every word of x's
\* length with a match in domain(y), removed before or not
ReviseRefills(doms, x, y) ==
    LET overlap == Overlap(x, y) IN
    IF overlap = None THEN [domains |-> doms, revised |-> FALSE]
    ELSE
        LET i == overlap[1]
            j == overlap[2]
            kept == {x_word \in {w \in crossword.words : Len(w) = x.length} :
                        \E y_word \in doms[y] : x_word[i + 1] = y_word[j + 1]}
        IN  [domains |-> [doms EXCEPT ![x] = kept],
             revised |-> kept # doms[x]]

\* Revise that also removes from domain(y) the words without a match in
\* what is left of domain(x)
ReviseBoth(doms, x, y) ==
    LET overlap == Overlap(x, y) IN
    IF overlap = None THEN [domains |-> doms, revised |-> FALSE]
    ELSE
        LET i == overlap[1]
            j == overlap[2]
            removed == {x_word \in doms[x] :
                            ~\E y_word \in doms[y] : x_word[i + 1] = y_word[j + 1]}
            removed_y == {y_word \in doms[y] :
                            ~\E x_word \in doms[x] \ removed :
                                x_word[i + 1] = y_word[j + 1]}
        IN  [domains |-> [doms EXCEPT ![x] = @ \ removed,
                                      ![y] = @ \ removed_y],
             revised |-> removed # {}]

\* Revise that forgets to set `revised`
ReviseUnflagged(doms, x, y) ==
    LET overlap == Overlap(x, y) IN
    IF overlap = None THEN [domains |-> doms, revised |-> FALSE]
    ELSE
        LET i == overlap[1]
            j == overlap[2]
            removed == {x_word \in doms[x] :
                            ~\E y_word \in doms[y] : x_word[i + 1] = y_word[j + 1]}
        IN  [domains |-> [doms EXCEPT ![x] = @ \ removed],
             revised |-> FALSE]

\* x_word[i] or y_word[j] of revise can raise IndexError: a word that one
\* of the loops can reach is too short for its index
ReviseRaises(doms, x, y) ==
    LET overlap == Overlap(x, y) IN
    /\ overlap # None
    /\ \/ \E x_word \in doms[x] : Len(x_word) < overlap[1] + 1
       \/ /\ doms[x] # {}
          /\ \E y_word \in doms[y] : Len(y_word) < overlap[2] + 1

Revise(doms, x, y) ==
    LET overlap == Overlap(x, y) IN
    IF overlap = None THEN [domains |-> doms, revised |-> FALSE]
    ELSE
        LET i == overlap[1]
            j == overlap[2]
            has_valid_y(x_word) ==
                \E y_word \in doms[y] : x_word[i + 1] = y_word[j + 1]
            removed == {x_word \in doms[x] : ~has_valid_y(x_word)}
        IN  [domains |-> [doms EXCEPT ![x] = @ \ removed],
             revised |-> removed # {}]

----------------------------------------------------------------------------
(* ac3 *)

\* DefaultArcs with the initial list left empty
NoArcs == {<<>>}

\* arcs = None: the lists the two nested loops over sets can build
DefaultArcs ==
    {Concat([k \in 1..Len(vo) |->
                [m \in 1..Len(no[vo[k]]) |-> <<vo[k], no[vo[k]][m]>>]]) :
        vo \in Orders(crossword.variables),
        no \in {f \in [crossword.variables -> UNION {Orders(Neighbors(v)) : v \in crossword.variables}] :
                    \A v \in crossword.variables : f[v] \in Orders(Neighbors(v))}}

\* QueueAfterPop reading the first arc without removing it
QueueNotPopped(q) == q

\* queue.pop(0): what is left of the queue
QueueAfterPop(q) == Tail(q)

\* RequeuedArcs appending nothing
NoRequeue(x, y) == {<<>>}

\* RequeuedArcs that does not leave y out
RequeueWithY(x, y) ==
    {[k \in 1..Len(o) |-> <<o[k], x>>] : o \in Orders(Neighbors(x))}

\* the arcs appended after a revision of x against y
RequeuedArcs(x, y) ==
    {[k \in 1..Len(o) |-> <<o[k], x>>] : o \in Orders(Neighbors(x) \ {y})}

----------------------------------------------------------------------------
(* assignment_complete, consistent *)

\* AssignmentComplete that never finds the assignment complete
AssignmentNeverComplete(asg) == FALSE

AssignmentComplete(asg) ==
    \A var \in crossword.variables : var \in DOMAIN asg

\* consistent(), visiting the variables of the assignment in `order` (the
\* insertion order of the dict): the outcomes the call can have, "True",
\* "False" or "IndexError".  The loop over the set of neighbors stops at
\* the first neighbor, in any order, whose character differs (return
\* False) or whose word is too short to be indexed (IndexError).
RECURSIVE ConsistentFrom(_, _, _, _)
ConsistentFrom(asg, order, k, used_words) ==
    IF k > Len(order) THEN {"True"}
    ELSE
        LET var == order[k]
            word == asg[var]
            checked == {neighbor \in Neighbors(var) :
                            /\ neighbor \in DOMAIN asg
                            /\ Overlap(var, neighbor) # None}
            raising == {neighbor \in checked :
                            Overlap(var, neighbor)[2] + 1 > Len(asg[neighbor])}
            differing == {neighbor \in checked \ raising :
                            word[Overlap(var, neighbor)[1] + 1]
                              # asg[neighbor][Overlap(var, neighbor)[2] + 1]}
        IN  IF Len(word) # var.length THEN {"False"}
            ELSE IF word \in used_words THEN {"False"}
            ELSE IF raising \cup differing # {}
                 THEN (IF raising # {} THEN {"IndexError"} ELSE {})
                        \cup (IF differing # {} THEN {"False"} ELSE {})
            ELSE ConsistentFrom(asg, order, k + 1, used_words \cup {word})

ConsistentOutcomes(asg, order) == ConsistentFrom(asg, order, 1, {})

\* Consistent without the check of the overlapping characters
ConsistentNoOverlap(asg, order) ==
    /\ \A var \in DOMAIN asg : Len(asg[var]) = var.length
    /\ \A v1, v2 \in DOMAIN asg : v1 # v2 => asg[v1] # asg[v2]

\* consistent() returned True
Consistent(asg, order) == ConsistentOutcomes(asg, order) = {"True"}

----------------------------------------------------------------------------
(* order_domain_values, select_unassigned_variable *)

\* RuledOut counting the words that match instead of those that differ
RuledOutMatches(value, var, asg) ==
    LET counted == {n \in Neighbors(var) : n \notin DOMAIN asg /\ Overlap(var, n) # None}
        perNeighbor ==
            [n \in counted |->
                Cardinality({neighbor_value \in domains[n] :
                    value[Overlap(var, n)[1] + 1]
                        = neighbor_value[Overlap(var, n)[2] + 1]})]
    IN  Sum(perNeighbor, counted)

RuledOut(value, var, asg) ==
    LET counted == {n \in Neighbors(var) : n \notin DOMAIN asg /\ Overlap(var, n) # None}
        perNeighbor ==
            [n \in counted |->
                Cardinality({neighbor_value \in domains[n] :
                    value[Overlap(var, n)[1] + 1]
                        # neighbor_value[Overlap(var, n)[2] + 1]})]
    IN  Sum(perNeighbor, counted)

\* sorted() is stable over an arbitrary iteration order of the set: every
\* list of the domain in non-decreasing order of the key
OrderDomainValues(var, asg) ==
    {o \in Orders(domains[var]) :
        \A a, b \in DOMAIN o :
            a < b => RuledOut(o[a], var, asg) <= RuledOut(o[b], var, asg)}

\* SelectUnassignedVariable with the sign of the degree forgotten
SelectLowestDegree(asg) ==
    LET unassigned == {var \in crossword.variables : var \notin DOMAIN asg}
        remaining_values(var) == Cardinality(domains[var])
        degree(var) == Cardinality(Neighbors(var))
        Less(a, b) ==
            \/ remaining_values(a) < remaining_values(b)
            \/ /\ remaining_values(a) = remaining_values(b)
               /\ degree(a) < degree(b)
    IN  {var \in unassigned : \A other \in unassigned : ~Less(other, var)}

\* min() over (remaining_values, -degree); the first minimum in an arbitrary
\* iteration order
SelectUnassignedVariable(asg) ==
    LET unassigned == {var \in crossword.variables : var \notin DOMAIN asg}
        remaining_values(var) == Cardinality(domains[var])
        degree(var) == Cardinality(Neighbors(var))
        Less(a, b) ==
            \/ remaining_values(a) < remaining_values(b)
            \/ /\ remaining_values(a) = remaining_values(b)
               /\ -degree(a) < -degree(b)
    IN  {var \in unassigned : \A other \in unassigned : ~Less(other, var)}

----------------------------------------------------------------------------
(* Initial state: CrosswordCreator.__init__ *)

NoRevise == [called |-> FALSE]

NoConsistent == [called |-> FALSE]

\* the other programs of the repository are not running
OthersIdle ==
    /\ board = <<>>
    /\ aiSide = "idle"
    /\ field = <<>>
    /\ ai = <<>>

Init ==
    /\ crossword \in {[variables |-> s, words |-> d] :
                        s \in Structures, d \in Dictionaries}
    /\ domains = [var \in crossword.variables |-> crossword.words]
    /\ pc = "new"
    /\ todo = {}
    /\ queue = <<>>
    /\ caller = "none"
    /\ ac3ret = "none"
    /\ initialAc3 = "none"
    /\ assignment = <<>>
    /\ stack = <<>>
    /\ retval = [tag |-> "pending"]
    /\ result = [tag |-> "pending"]
    /\ lastRevise = NoRevise
    /\ lastConsistent = NoConsistent
    /\ firstResult = [tag |-> "pending"]
    /\ OthersIdle

----------------------------------------------------------------------------
(* solve *)

\* solve() is entered and calls enforce_node_consistency()
Solve ==
    /\ pc = "new"
    /\ pc' = "enforce"
    /\ todo' = crossword.variables
    /\ UNCHANGED <<crossword, domains, queue, caller, ac3ret, initialAc3,
                   assignment, stack, retval, result, lastRevise, lastConsistent,
                   firstResult, others>>

\* one iteration of the loop of enforce_node_consistency
EnforceNodeConsistency ==
    /\ pc = "enforce"
    /\ \E var \in todo :
        /\ \E order \in Orders(domains[var]) :
            domains' = [domains EXCEPT
                            ![var] = NodeConsistentDomain(var, @, order)]
        /\ todo' = todo \ {var}
    /\ UNCHANGED <<crossword, pc, queue, caller, ac3ret, initialAc3,
                   assignment, stack, retval, result, lastRevise, lastConsistent,
                   firstResult, others>>

\* solve() calls ac3() with arcs = None
SolveAc3 ==
    /\ pc = "enforce"
    /\ todo = {}
    /\ queue' \in DefaultArcs
    /\ caller' = "solve"
    /\ pc' = "ac3"
    /\ UNCHANGED <<crossword, domains, todo, ac3ret, initialAc3,
                   assignment, stack, retval, result, lastRevise, lastConsistent,
                   firstResult, others>>

\* one iteration of the while loop of ac3
Ac3Revise ==
    /\ pc = "ac3"
    /\ queue # <<>>
    /\ LET x == Head(queue)[1]
           y == Head(queue)[2]
           r == Revise(domains, x, y)
       IN  IF ReviseRaises(domains, x, y)
           THEN /\ pc' = "error"
                /\ queue' = QueueAfterPop(queue)
                /\ UNCHANGED <<domains, lastRevise, ac3ret>>
           ELSE
           /\ domains' = r.domains
           /\ lastRevise' = [called |-> TRUE, x |-> x, y |-> y,
                             before |-> domains, after |-> r.domains,
                             revised |-> r.revised]
           /\ IF r.revised
              THEN IF Cardinality(r.domains[x]) = 0
                   THEN /\ queue' = QueueAfterPop(queue)
                        /\ ac3ret' = "False"
                        /\ pc' = "ac3_return"
                   ELSE /\ \E arcs \in RequeuedArcs(x, y) :
                                queue' = QueueAfterPop(queue) \o arcs
                        /\ UNCHANGED <<ac3ret, pc>>
              ELSE /\ queue' = QueueAfterPop(queue)
                   /\ UNCHANGED <<ac3ret, pc>>
    /\ UNCHANGED <<crossword, todo, caller, initialAc3, assignment, stack,
                   retval, result, lastConsistent,
                   firstResult, others>>

\* the queue is empty: ac3 returns True
Ac3Done ==
    /\ pc = "ac3"
    /\ queue = <<>>
    /\ ac3ret' = "True"
    /\ pc' = "ac3_return"
    /\ UNCHANGED <<crossword, domains, todo, queue, caller, initialAc3,
                   assignment, stack, retval, result, lastRevise, lastConsistent,
                   firstResult, others>>

\* solve() drops what ac3 returned and calls backtrack(dict())
SolveBacktrack ==
    /\ pc = "ac3_return"
    /\ caller = "solve"
    /\ initialAc3' = ac3ret
    /\ assignment' = <<>>
    /\ stack' = <<>>
    /\ pc' = "backtrack"
    /\ UNCHANGED <<crossword, domains, todo, queue, caller, ac3ret,
                   retval, result, lastRevise, lastConsistent,
                   firstResult, others>>

----------------------------------------------------------------------------
(* backtrack *)

\* RemainingValues giving up after the first value that failed
NoMoreValues(values) == <<>>

\* the for loop goes on to the next value
RemainingValues(values) == Tail(values)

\* ExhaustedReturn handing back the assignment it was given
ExhaustedReturnsAssignment(asg) == [tag |-> "assignment", value |-> asg]

\* the value returned once the for loop is over
ExhaustedReturn(asg) == [tag |-> "None"]

\* a call of backtrack(assignment) starts: return the complete assignment,
\* or select a variable and order its values; orderings[var] is the set of
\* lists the ordering may return for var
BacktrackCall(orderings) ==
    /\ pc = "backtrack"
    /\ IF AssignmentComplete(assignment)
       THEN /\ retval' = [tag |-> "assignment", value |-> assignment]
            /\ pc' = "return"
            /\ UNCHANGED stack
       ELSE IF SelectUnassignedVariable(assignment) = {}
       THEN \* min() of an empty list raises ValueError
            /\ pc' = "error"
            /\ UNCHANGED <<stack, retval>>
       ELSE /\ \E var \in SelectUnassignedVariable(assignment) :
               \E values \in orderings[var] :
                    stack' = Append(stack,
                        [var |-> var, values |-> values, tried |-> 0,
                         entry |-> assignment, atBind |-> domains])
            /\ pc' = "loop"
            /\ UNCHANGED retval
    /\ UNCHANGED <<crossword, domains, todo, queue, caller, ac3ret,
                   initialAc3, assignment, result, lastRevise, lastConsistent,
                   firstResult, others>>

Backtrack ==
    BacktrackCall([var \in crossword.variables |->
                      OrderDomainValues(var, assignment)])

\* the next value of the for loop: bind it in a copy, check consistency,
\* and either bind it in the assignment and call ac3, or go on
BacktrackTry ==
    /\ pc = "loop"
    /\ Top.values # <<>>
    /\ LET var == Top.var
           value == Head(Top.values)
           new_assignment == Bind(assignment, var, value)
       IN  \E order \in Orders(DOMAIN new_assignment) :
            /\ lastConsistent' =
                    [called |-> TRUE, assignment |-> new_assignment,
                     outcomes |-> ConsistentOutcomes(new_assignment, order),
                     value |-> Consistent(new_assignment, order)]
            /\ IF "IndexError" \in ConsistentOutcomes(new_assignment, order)
               THEN
                 /\ pc' = "error"
                 /\ UNCHANGED <<assignment, queue, caller, stack>>
               ELSE IF Consistent(new_assignment, order)
               THEN
                 /\ assignment' = new_assignment
                 /\ \E arcs \in Orders({n \in Neighbors(var) :
                                            n \notin DOMAIN new_assignment}) :
                        queue' = [k \in 1..Len(arcs) |-> <<arcs[k], var>>]
                 /\ caller' = "backtrack"
                 /\ pc' = "ac3"
                 /\ stack' = SetTop([Top EXCEPT !.atBind = domains])
               ELSE
                 /\ stack' = SetTop([Top EXCEPT
                                        !.values = RemainingValues(@),
                                        !.tried = @ + 1,
                                        !.atBind = domains])
                 /\ UNCHANGED <<assignment, queue, caller, pc>>
    /\ UNCHANGED <<crossword, domains, todo, ac3ret, initialAc3, retval,
                   result, lastRevise,
                   firstResult, others>>

\* ac3 returned to backtrack: recurse, or undo the binding and go on
BacktrackAfterAc3 ==
    /\ pc = "ac3_return"
    /\ caller = "backtrack"
    /\ IF ac3ret = "True"
       THEN /\ pc' = "backtrack"
            /\ UNCHANGED <<assignment, stack>>
       ELSE /\ assignment' = Pop(assignment, Top.var)
            /\ stack' = SetTop([Top EXCEPT !.values = RemainingValues(@),
                                           !.tried = @ + 1])
            /\ pc' = "loop"
    /\ UNCHANGED <<crossword, domains, todo, queue, caller, ac3ret,
                   initialAc3, retval, result, lastRevise, lastConsistent,
                   firstResult, others>>

\* the for loop is over: the call returns None
BacktrackNone ==
    /\ pc = "loop"
    /\ Top.values = <<>>
    /\ retval' = ExhaustedReturn(assignment)
    /\ stack' = SubSeq(stack, 1, Len(stack) - 1)
    /\ pc' = "return"
    /\ UNCHANGED <<crossword, domains, todo, queue, caller, ac3ret,
                   initialAc3, assignment, result, lastRevise, lastConsistent,
                   firstResult, others>>

\* a recursive call returned to its caller: pass a result on, or undo the
\* binding and go on
BacktrackReturn ==
    /\ pc = "return"
    /\ stack # <<>>
    /\ IF retval.tag # "None"
       THEN /\ stack' = SubSeq(stack, 1, Len(stack) - 1)
            /\ UNCHANGED <<assignment, pc>>
       ELSE /\ assignment' = Pop(assignment, Top.var)
            /\ stack' = SetTop([Top EXCEPT !.values = RemainingValues(@),
                                           !.tried = @ + 1])
            /\ pc' = "loop"
    /\ UNCHANGED <<crossword, domains, todo, queue, caller, ac3ret,
                   initialAc3, retval, result, lastRevise, lastConsistent,
                   firstResult, others>>

\* backtrack(dict()) returned: solve() returns its value
SolveReturn ==
    /\ pc = "return"
    /\ stack = <<>>
    /\ result' = retval
    /\ pc' = "done"
    /\ UNCHANGED <<crossword, domains, todo, queue, caller, ac3ret,
                   initialAc3, assignment, stack, retval, lastRevise, lastConsistent,
                   firstResult, others>>

Next ==
    \/ Solve
    \/ EnforceNodeConsistency
    \/ SolveAc3
    \/ Ac3Revise
    \/ Ac3Done
    \/ SolveBacktrack
    \/ Backtrack
    \/ BacktrackTry
    \/ BacktrackAfterAc3
    \/ BacktrackNone
    \/ BacktrackReturn
    \/ SolveReturn

Spec == Init /\ [][Next]_vars

\* a running ac3 call goes on: the program is one thread that never stops
\* by itself
FairSpec == Spec /\ WF_vars(Ac3Revise \/ Ac3Done)

\* solve() as a whole goes on until it returns or raises
LiveSpec == Spec /\ WF_vars(Next)

----------------------------------------------------------------------------
(* solve() with order_domain_values replaced by an arbitrary order *)

AnyOrder(var, asg) == Orders(domains[var])

BacktrackAnyOrder ==
    BacktrackCall([var \in crossword.variables |-> AnyOrder(var, assignment)])

NextAnyOrder ==
    \/ Solve
    \/ EnforceNodeConsistency
    \/ SolveAc3
    \/ Ac3Revise
    \/ Ac3Done
    \/ SolveBacktrack
    \/ BacktrackAnyOrder
    \/ BacktrackTry
    \/ BacktrackAfterAc3
    \/ BacktrackNone
    \/ BacktrackReturn
    \/ SolveReturn

SpecAnyOrder == Init /\ [][NextAnyOrder]_vars

----------------------------------------------------------------------------
(* solve() called a second time on the same CrosswordCreator *)

\* solve() has returned and is called again: self.domains is what the first
\* call left
SolveAgain ==
    /\ pc = "done"
    /\ firstResult.tag = "pending"
    /\ firstResult' = result
    /\ result' = [tag |-> "pending"]
    /\ todo' = crossword.variables
    /\ pc' = "enforce"
    /\ UNCHANGED <<crossword, domains, queue, caller, ac3ret, initialAc3,
                   assignment, stack, retval, lastRevise, lastConsistent, others>>

NextTwice ==
    \/ Solve
    \/ EnforceNodeConsistency
    \/ SolveAc3
    \/ Ac3Revise
    \/ Ac3Done
    \/ SolveBacktrack
    \/ Backtrack
    \/ BacktrackTry
    \/ BacktrackAfterAc3
    \/ BacktrackNone
    \/ BacktrackReturn
    \/ SolveReturn
    \/ SolveAgain

SpecTwice == Init /\ [][NextTwice]_vars

----------------------------------------------------------------------------
(* ac3(arcs) called with a list of arcs of the caller's choice, after
   enforce_node_consistency() *)

MaxArcs == 2

\* the pairs of distinct variables, overlapping or not
VariablePairs ==
    {p \in crossword.variables \X crossword.variables : p[1] # p[2]}

\* the lists of at most MaxArcs arcs
ArcLists ==
    UNION {[1..n -> VariablePairs] : n \in 0..MaxArcs}

\* ac3(arcs) with arcs given: queue = arcs.copy()
Ac3WithArcs ==
    /\ pc = "enforce"
    /\ todo = {}
    /\ queue' \in ArcLists
    /\ caller' = "arcs"
    /\ pc' = "ac3"
    /\ UNCHANGED <<crossword, domains, todo, ac3ret, initialAc3,
                   assignment, stack, retval, result, lastRevise, lastConsistent,
                   firstResult, others>>

NextArcs ==
    \/ Solve
    \/ EnforceNodeConsistency
    \/ Ac3WithArcs
    \/ Ac3Revise
    \/ Ac3Done

SpecArcs == Init /\ [][NextArcs]_vars

----------------------------------------------------------------------------
(* Tic-Tac-Toe (Project-0/Tic-Tac-Toe/tictactoe.py) *)

X == "X"
O == "O"
EMPTY == "None"

\* the crossword solver is not running
SolverIdle ==
    /\ crossword = [variables |-> {}, words |-> {}]
    /\ domains = <<>>
    /\ pc = "idle"
    /\ todo = {}
    /\ queue = <<>>
    /\ caller = "none"
    /\ ac3ret = "none"
    /\ initialAc3 = "none"
    /\ assignment = <<>>
    /\ stack = <<>>
    /\ retval = [tag |-> "pending"]
    /\ result = [tag |-> "pending"]
    /\ lastRevise = NoRevise
    /\ lastConsistent = NoConsistent
    /\ firstResult = [tag |-> "pending"]

\* a board is a list of three rows of three cells: board[i][j] of the source
\* is b[i + 1][j + 1]
initial_state == [i \in 1..3 |-> [j \in 1..3 |-> EMPTY]]

Coordinates == (0..2) \X (0..2)

Count(b, mark) == Cardinality({c \in Coordinates : b[c[1] + 1][c[2] + 1] = mark})

Player(b) == IF Count(b, X) <= Count(b, O) THEN X ELSE O

Actions(b) == {c \in Coordinates : b[c[1] + 1][c[2] + 1] = EMPTY}

\* result(board, action) for an action on an empty cell
Result(b, action) ==
    [b EXCEPT ![action[1] + 1][action[2] + 1] = Player(b)]

\* the rows, the columns and the two diagonals
Lines ==
    {{<<i, j>> : j \in 0..2} : i \in 0..2}
        \cup {{<<i, j>> : i \in 0..2} : j \in 0..2}
        \cup {{<<i, i>> : i \in 0..2}, {<<i, 2 - i>> : i \in 0..2}}

HasLine(b, mark) ==
    \E line \in Lines : \A c \in line : b[c[1] + 1][c[2] + 1] = mark

\* winner(board): X is looked for first; EMPTY is Python's None
Winner(b) ==
    IF HasLine(b, X) THEN X
    ELSE IF HasLine(b, O) THEN O
    ELSE EMPTY

Terminal(b) ==
    IF Winner(b) # EMPTY THEN TRUE
    ELSE IF Actions(b) # {} THEN FALSE
    ELSE TRUE

\* `win_player == 0` of the source: win_player is "X", "O" or None, and in
\* Python none of them equals the integer 0
EqualsInt(value, n) == FALSE

Utility(b) ==
    LET win_player == Winner(b) IN
    IF win_player = X THEN 1
    ELSE IF EqualsInt(win_player, 0) THEN -1
    ELSE 0

Largest(S) == CHOOSE n \in S : \A k \in S : k <= n

Smallest(S) == CHOOSE n \in S : \A k \in S : n <= k

\* max_value and min_value return (v, optimal_move).  The loop over the set
\* actions(board) keeps the first action that reaches the best value, and
\* any action that reaches it can come first: optimal_move is the set of
\* the moves the call can return, {<<>>} standing for ().
RECURSIVE max_value(_), min_value(_)
max_value(b) ==
    IF Terminal(b) THEN [v |-> Utility(b), optimal_move |-> {<<>>}]
    ELSE LET minvals == {<<action, min_value(Result(b, action)).v>> :
                            action \in Actions(b)}
             v == Largest({-5} \cup {m[2] : m \in minvals})
         IN  [v |-> v,
              optimal_move |-> IF v = -5 THEN {<<>>}
                               ELSE {m[1] : m \in {n \in minvals : n[2] = v}}]

min_value(b) ==
    IF Terminal(b) THEN [v |-> Utility(b), optimal_move |-> {<<>>}]
    ELSE LET maxvals == {<<action, max_value(Result(b, action)).v>> :
                            action \in Actions(b)}
             v == Smallest({5} \cup {m[2] : m \in maxvals})
         IN  [v |-> v,
              optimal_move |-> IF v = 5 THEN {<<>>}
                               ELSE {m[1] : m \in {n \in maxvals : n[2] = v}}]

\* minimax(board): the values it can return, {EMPTY} standing for None
Minimax(b) ==
    LET curr_player == Player(b) IN
    IF Terminal(b) THEN {EMPTY}
    ELSE IF curr_player = X THEN max_value(b).optimal_move
    ELSE min_value(b).optimal_move

TttInit ==
    /\ SolverIdle
    /\ board = initial_state
    /\ aiSide \in {X, O}
    /\ field = <<>>
    /\ ai = <<>>

\* the other player puts a mark on any empty cell
OpponentMove ==
    /\ ~Terminal(board)
    /\ Player(board) # aiSide
    /\ \E action \in Actions(board) : board' = Result(board, action)
    /\ UNCHANGED <<solver, aiSide, field, ai>>

\* the computer asks minimax for a move and plays it
MinimaxMove ==
    /\ ~Terminal(board)
    /\ Player(board) = aiSide
    /\ \E move \in Minimax(board) : board' = Result(board, move)
    /\ UNCHANGED <<solver, aiSide, field, ai>>

TttNext ==
    \/ OpponentMove
    \/ MinimaxMove

TttSpec == TttInit /\ [][TttNext]_vars

----------------------------------------------------------------------------
(* Minesweeper (Project-1/minesweeper/minesweeper.py) *)

Height == 3
Width == 3
MaxMines == 2
MaxCalls == 3

\* the cells of a board of the given height and width
BoardCells(height, width) == (0..(height - 1)) \X (0..(width - 1))

\* Minesweeper.nearby_mines(cell)
NearbyMines(game, cell) ==
    Cardinality({c \in ((cell[1] - 1)..(cell[1] + 1)) \X ((cell[2] - 1)..(cell[2] + 1)) :
                    /\ c # cell
                    /\ 0 <= c[1] /\ c[1] < game.height
                    /\ 0 <= c[2] /\ c[2] < game.width
                    /\ c \in game.mines})

\* a Sentence is [cells, count]

\* KnownMines without the test that every cell is a mine
KnownMinesAnyCount(sentence) ==
    IF sentence.count > 0 THEN sentence.cells ELSE {}

\* Sentence.known_mines
KnownMines(sentence) ==
    IF Cardinality(sentence.cells) = sentence.count /\ sentence.count > 0
    THEN sentence.cells
    ELSE {}

\* Sentence.known_safes
KnownSafes(sentence) ==
    IF sentence.count = 0 THEN sentence.cells ELSE {}

\* Sentence.mark_mine
SentenceMarkMine(sentence, cell) ==
    IF cell \in sentence.cells
    THEN [cells |-> sentence.cells \ {cell}, count |-> sentence.count - 1]
    ELSE sentence

\* Sentence.mark_safe
SentenceMarkSafe(sentence, cell) ==
    IF cell \in sentence.cells
    THEN [cells |-> sentence.cells \ {cell}, count |-> sentence.count]
    ELSE sentence

\* MinesweeperAI.mark_mine
MarkMine(a, cell) ==
    [a EXCEPT !.mines = @ \cup {cell},
              !.knowledge = [k \in 1..Len(@) |-> SentenceMarkMine(@[k], cell)]]

\* MinesweeperAI.mark_safe
MarkSafe(a, cell) ==
    [a EXCEPT !.safes = @ \cup {cell},
              !.knowledge = [k \in 1..Len(@) |-> SentenceMarkSafe(@[k], cell)]]

\* for safe in safes: self.mark_safe(safe).  Marking two cells gives the
\* same knowledge in either order, so one order stands for all.
RECURSIVE MarkAllSafe(_, _)
MarkAllSafe(a, safes) ==
    IF safes = {} THEN a
    ELSE LET safe == CHOOSE c \in safes : TRUE
         IN  MarkAllSafe(MarkSafe(a, safe), safes \ {safe})

\* for mine in mines: self.mark_mine(mine)
RECURSIVE MarkAllMines(_, _)
MarkAllMines(a, mines) ==
    IF mines = {} THEN a
    ELSE LET mine == CHOOSE c \in mines : TRUE
         IN  MarkAllMines(MarkMine(a, mine), mines \ {mine})

\* `sentence in sentences` for a list of sentences
InList(sentence, sentences) ==
    \E k \in 1..Len(sentences) : sentences[k] = sentence

\* the two nested loops over self.knowledge that collect new_sentences; n
\* counts the pairs (s1, s2) already visited
RECURSIVE NewSentences(_, _, _)
NewSentences(knowledge, n, new_sentences) ==
    IF n >= Len(knowledge) * Len(knowledge) THEN new_sentences
    ELSE LET s1 == knowledge[(n \div Len(knowledge)) + 1]
             s2 == knowledge[(n % Len(knowledge)) + 1]
             new_sentence == [cells |-> s2.cells \ s1.cells,
                              count |-> s2.count - s1.count]
         IN  IF /\ s1.cells # {} /\ s2.cells # {} /\ s1 # s2
                /\ s1.cells \subseteq s2.cells
                /\ ~InList(new_sentence, knowledge)
                /\ ~InList(new_sentence, new_sentences)
             THEN NewSentences(knowledge, n + 1,
                               Append(new_sentences, new_sentence))
             ELSE NewSentences(knowledge, n + 1, new_sentences)

NonEmpty(sentence) == sentence.cells # {}

\* the `while True` loop of add_knowledge, from one iteration on
RECURSIVE InferenceLoop(_)
InferenceLoop(a) ==
    LET safes == UNION {KnownSafes(a.knowledge[k]) : k \in 1..Len(a.knowledge)}
        mines == UNION {KnownMines(a.knowledge[k]) : k \in 1..Len(a.knowledge)}
        marked == MarkAllMines(MarkAllSafe(a, safes), mines)
        new_sentences == NewSentences(marked.knowledge, 0, <<>>)
        new_info == safes # {} \/ mines # {} \/ new_sentences # <<>>
        after == [marked EXCEPT !.knowledge =
                        SelectSeq(@ \o new_sentences, NonEmpty)]
    IN  IF new_info THEN InferenceLoop(after) ELSE after

\* MinesweeperAI.add_knowledge(cell, count)
AddKnowledge(a, cell, count) ==
    LET moved == MarkSafe([a EXCEPT !.moves_made = @ \cup {cell}], cell)
        neighbors == {c \in BoardCells(a.height, a.width) :
                        /\ c # cell
                        /\ cell[1] - 1 <= c[1] /\ c[1] < cell[1] + 2
                        /\ cell[2] - 1 <= c[2] /\ c[2] < cell[2] + 2}
        unknown_neighbours == (neighbors \ moved.mines) \ moved.safes
        remaining_count == count - Cardinality(neighbors \cap moved.mines)
        told == IF unknown_neighbours # {}
                THEN [moved EXCEPT !.knowledge =
                        Append(@, [cells |-> unknown_neighbours,
                                   count |-> remaining_count])]
                ELSE moved
    IN  InferenceLoop(told)

\* MinesweeperAI.make_safe_move(): the values it can return
MakeSafeMove(a) ==
    IF a.safes \ a.moves_made # {} THEN a.safes \ a.moves_made ELSE {None}

\* a game with its mines laid and a new MinesweeperAI for it
MsInit ==
    /\ SolverIdle
    /\ board = <<>>
    /\ aiSide = "idle"
    /\ \E mines \in SUBSET BoardCells(Height, Width) :
        /\ Cardinality(mines) <= MaxMines
        /\ field = [height |-> Height, width |-> Width, mines |-> mines]
    /\ ai = [height |-> Height, width |-> Width, moves_made |-> {},
             mines |-> {}, safes |-> {}, knowledge |-> <<>>, calls |-> 0]

\* a cell without a mine is revealed and the board's count is handed to the
\* AI; ai.calls counts the calls
Reveal ==
    /\ ai.calls < MaxCalls
    /\ \E cell \in BoardCells(field.height, field.width) \ field.mines :
        ai' = [AddKnowledge(ai, cell, NearbyMines(field, cell))
                    EXCEPT !.calls = @ + 1]
    /\ UNCHANGED <<solver, board, aiSide, field>>

MsNext == Reveal

MsSpec == MsInit /\ [][MsNext]_vars

----------------------------------------------------------------------------
(* What the properties are stated with *)

\* the characters of wx and wy agree at overlap(x, y)
Agree(x, wx, y, wy) ==
    wx[Overlap(x, y)[1] + 1] = wy[Overlap(x, y)[2] + 1]

\* the consistency of an assignment, as the data model defines it
IsConsistent(f) ==
    /\ \A v \in DOMAIN f : Len(f[v]) = v.length
    /\ \A v1, v2 \in DOMAIN f : v1 # v2 => f[v1] # f[v2]
    /\ \A v1, v2 \in DOMAIN f :
        (v1 # v2 /\ Overlap(v1, v2) # None) => Agree(v1, f[v1], v2, f[v2])

IsSolution(f) == DOMAIN f = crossword.variables /\ IsConsistent(f)

Solvable ==
    \E f \in [crossword.variables -> crossword.words] : IsSolution(f)

ArcConsistent(doms) ==
    \A x, y \in crossword.variables :
        (x # y /\ Overlap(x, y) # None) =>
            \A wx \in doms[x] : \E wy \in doms[y] : Agree(x, wx, y, wy)

NodeConsistentWords(v) == {w \in crossword.words : Len(w) = v.length}

----------------------------------------------------------------------------
(* Properties *)

\* C1: an assignment returned by solve() binds every variable and is
\* consistent: right lengths, no word used twice, overlapping characters
\* equal.
C1_ReturnedAssignmentIsSolution ==
    (pc = "done" /\ result.tag = "assignment") => IsSolution(result.value)

C1_Witness ==
    /\ pc = "done"
    /\ result.tag = "assignment"
    /\ Cardinality(crossword.variables) = 3

\* C2: solve() returns None exactly when the puzzle has no complete
\* consistent assignment of dictionary words.
C2_SolveComplete ==
    pc = "done" => (result.tag = "None" <=> ~Solvable)

C2_Witness ==
    /\ pc = "done"
    /\ Solvable
    /\ result.tag = "assignment"
    /\ Cardinality(crossword.variables) = 3
    /\ \E v \in crossword.variables : domains[v] # NodeConsistentWords(v)

\* C3: after an initial propagation that returned failure, backtrack is
\* never invoked.
C3_NoBacktrackAfterFailedPropagation ==
    ~(initialAc3 = "False" /\ pc = "backtrack")

\* C4: when backtrack abandons a candidate and goes on to the next one,
\* every domain is what it was when the candidate was tentatively bound.
C4_DomainsRolledBack ==
    (pc = "loop" /\ Top.tried > 0) => domains = Top.atBind

C4_Witness ==
    /\ pc = "loop"
    /\ Top.tried > 0
    /\ Len(stack) = 1
    /\ retval.tag = "None"

\* C5: after backtrack bound var to word and the propagation seeded with
\* the arcs (neighbor, var) returned success, every word left in the domain
\* of an unassigned neighbor of var agrees with word at the overlap.
C5_NeighborsAgreeWithBinding ==
    (pc = "ac3_return" /\ caller = "backtrack" /\ ac3ret = "True") =>
        \A n \in Neighbors(Top.var) \ DOMAIN assignment :
            \A w \in domains[n] : Agree(n, w, Top.var, assignment[Top.var])

\* C6: when the ac3 call with the default full arc set returns True, the
\* domains are arc consistent, and a revise of any arc removes nothing, so
\* that a second run of ac3 over the full arc set changes no domain.
C6_FullAc3ArcConsistent ==
    (pc = "ac3_return" /\ caller = "solve" /\ ac3ret = "True") =>
        /\ ArcConsistent(domains)
        /\ \A x \in crossword.variables : \A y \in Neighbors(x) :
                /\ ~Revise(domains, x, y).revised
                /\ Revise(domains, x, y).domains = domains

C6_Witness ==
    /\ pc = "ac3_return"
    /\ caller = "solve"
    /\ ac3ret = "True"
    /\ \A v \in crossword.variables : domains[v] # {}
    /\ \E v \in crossword.variables : domains[v] # NodeConsistentWords(v)

\* C7: ac3 returns True only if no domain is empty when it returns.
C7_Ac3TrueNoEmptyDomain ==
    (pc = "ac3_return" /\ ac3ret = "True") =>
        \A v \in crossword.variables : domains[v] # {}

\* C8: revise(x, y) leaves in domain(x) exactly the words of the old
\* domain(x) that some word of domain(y) matches at the overlap, and returns
\* True exactly when it removed a word; for the revise calls of a run and
\* for every pair of node-consistent domains of two overlapping variables.
C8_ReviseExact ==
    /\ lastRevise.called =>
        LET x == lastRevise.x
            y == lastRevise.y
            kept == {wx \in lastRevise.before[x] :
                        \E wy \in lastRevise.before[y] : Agree(x, wx, y, wy)}
        IN  /\ lastRevise.after[x] = kept
            /\ lastRevise.revised <=> (kept # lastRevise.before[x])
    /\ pc = "new" =>
        \A x, y \in crossword.variables :
            (x # y /\ Overlap(x, y) # None) =>
                \A dx \in SUBSET NodeConsistentWords(x) :
                \A dy \in SUBSET NodeConsistentWords(y) :
                    LET doms == [v \in crossword.variables |->
                                    IF v = x THEN dx
                                    ELSE IF v = y THEN dy
                                    ELSE NodeConsistentWords(v)]
                        kept == {wx \in dx : \E wy \in dy : Agree(x, wx, y, wy)}
                        r == Revise(doms, x, y)
                    IN  /\ r.domains[x] = kept
                        /\ r.revised <=> (kept # dx)

C8_Witness ==
    /\ lastRevise.called
    /\ lastRevise.revised
    /\ lastRevise.after[lastRevise.x] # {}

\* C9: after enforce_node_consistency every domain is exactly the set of
\* the words of the previous domain (the dictionary) that have the length
\* of the variable.
C9_NodeConsistencyExact ==
    (pc = "enforce" /\ todo = {}) =>
        \A v \in crossword.variables :
            domains[v] = {w \in crossword.words : Len(w) = v.length}

C9_Witness ==
    /\ pc = "enforce"
    /\ todo = {}
    /\ \E v \in crossword.variables :
        /\ domains[v] # {}
        /\ \E w \in crossword.words \ domains[v] : Len(w) < v.length
        /\ \E w \in crossword.words \ domains[v] : Len(w) > v.length

\* C10: backtrack undoes its tentative bindings: whenever it is about to
\* try the next candidate, or to return None, the assignment holds exactly
\* the entries the call was given.
C10_AssignmentRestored ==
    pc = "loop" => (assignment = Top.entry /\ Top.var \notin DOMAIN assignment)

C10_Witness ==
    /\ pc = "loop"
    /\ Top.values = <<>>
    /\ Len(stack) = 2
    /\ retval.tag = "None"
    /\ Top.tried > 0

\* C11: select_unassigned_variable returns a variable that is not in the
\* assignment, whose domain is smallest among the unassigned variables, and
\* that has most neighbors among the unassigned variables with a domain of
\* that size.
C11_SelectMrvThenDegree ==
    (pc = "loop" /\ Top.tried = 0) =>
        LET unassigned == crossword.variables \ DOMAIN assignment
            size(v) == Cardinality(domains[v])
            deg(v) == Cardinality(Neighbors(v))
        IN  /\ Top.var \in unassigned
            /\ \A u \in unassigned : size(Top.var) <= size(u)
            /\ \A u \in unassigned :
                size(u) = size(Top.var) => deg(u) <= deg(Top.var)

C11_Witness ==
    /\ pc = "loop"
    /\ Top.tried = 0
    /\ \E u \in crossword.variables \ DOMAIN assignment :
        /\ Cardinality(domains[u]) = Cardinality(domains[Top.var])
        /\ Cardinality(Neighbors(u)) < Cardinality(Neighbors(Top.var))
    /\ \E u \in crossword.variables \ DOMAIN assignment :
        Cardinality(domains[u]) > Cardinality(domains[Top.var])

\* the pairs (n, wn) that binding var to w rules out: n an unassigned
\* neighbor of var, wn a word of domain(n) that differs from w at the overlap
EliminatedPairs(w, var) ==
    {p \in UNION {{<<n, wn>> : wn \in domains[n]} :
                    n \in Neighbors(var) \ DOMAIN assignment} :
        ~Agree(var, w, p[1], p[2])}

\* C12: order_domain_values returns a list holding each word of domain(var)
\* once, in non-decreasing order of the number of pairs (n, wn) it rules
\* out, n ranging over the unassigned neighbors only.
C12_OrderLeastConstraining ==
    (pc = "loop" /\ Top.tried = 0) =>
        LET values == Top.values IN
        /\ Len(values) = Cardinality(domains[Top.var])
        /\ {values[k] : k \in DOMAIN values} = domains[Top.var]
        /\ \A a, b \in DOMAIN values :
            a < b => Cardinality(EliminatedPairs(values[a], Top.var))
                        <= Cardinality(EliminatedPairs(values[b], Top.var))

C12_Witness ==
    /\ pc = "loop"
    /\ Top.tried = 0
    /\ Neighbors(Top.var) \cap DOMAIN assignment # {}
    /\ Neighbors(Top.var) \ DOMAIN assignment # {}
    /\ Len(Top.values) >= 2
    /\ Cardinality(EliminatedPairs(Top.values[1], Top.var))
         < Cardinality(EliminatedPairs(Top.values[Len(Top.values)], Top.var))

\* C13: every ac3 call terminates: once started, it returns.
C13_Ac3Terminates == (pc = "ac3") ~> (pc = "ac3_return")

C13_Witness ==
    /\ pc = "ac3_return"
    /\ caller = "solve"
    /\ ac3ret = "False"
    /\ \E v \in crossword.variables :
        domains[v] # {} /\ domains[v] # NodeConsistentWords(v)

\* C14: with order_domain_values replaced by any order of domain(var),
\* solve() returns None for exactly the puzzles for which it returns None
\* with the least-constraining-value order, that is (C2) the puzzles with no
\* solution; for the others it returns a solution.
C14_AnyOrderSameOutcome ==
    pc = "done" =>
        IF Solvable
        THEN result.tag = "assignment" /\ IsSolution(result.value)
        ELSE result.tag = "None"

C14_Witness ==
    /\ pc = "loop"
    /\ Top.tried = 0
    /\ Top.values \notin OrderDomainValues(Top.var, assignment)
    /\ Solvable

\* C15: for every partial or complete assignment, consistent() returns True
\* if and only if every word has the length of its variable, no word is
\* bound twice and the characters agree at every overlap.
C15_ConsistentIffDataModel ==
    pc = "new" =>
        \A S \in SUBSET crossword.variables :
        \A f \in [S -> crossword.words] :
        \A order \in Orders(S) :
            ConsistentOutcomes(f, order)
                = {IF IsConsistent(f) THEN "True" ELSE "False"}

\* C19: for every pair of variables x, y with no defined overlap, revise(x, y)
\* returns False, raises no error and leaves every domain unchanged.
C19_ReviseNoOverlapNoOp ==
    (lastRevise.called /\ Overlap(lastRevise.x, lastRevise.y) = None)
        => /\ lastRevise.revised = FALSE
           /\ lastRevise.after = lastRevise.before
           /\ domains = lastRevise.before

\* revise(x, y) ran on two variables that do not cross, x with candidates
C19_Witness ==
    /\ lastRevise.called
    /\ Overlap(lastRevise.x, lastRevise.y) = None
    /\ lastRevise.before[lastRevise.x] # {}
    /\ lastRevise.before[lastRevise.y] # {}

\* C20: when the initial propagation failed, or left a domain empty, solve()
\* returns None.
C20_FailedPropagationReturnsNone ==
    (pc = "done" /\ (initialAc3 = "False"
                        \/ \E v \in crossword.variables : domains[v] = {}))
        => result.tag = "None"

C20_Witness ==
    /\ pc = "done"
    /\ initialAc3 = "False"
    /\ \E v \in crossword.variables : domains[v] # {}

\* the boards on which the properties compute game values
MaxOpen == 6

\* the value of a board under best play by both sides: 1 when X wins, 0 for
\* a draw, -1 when O wins
RECURSIVE GameValue(_)
GameValue(b) ==
    IF HasLine(b, X) THEN 1
    ELSE IF HasLine(b, O) THEN -1
    ELSE IF Actions(b) = {} THEN 0
    ELSE IF Player(b) = X
         THEN Largest({GameValue(Result(b, action)) : action \in Actions(b)})
         ELSE Smallest({GameValue(Result(b, action)) : action \in Actions(b)})

\* C16: utility(board) is 1 if X has three in a row, -1 if O has three in a
\* row, and 0 otherwise.
C16_UtilityByWinner ==
    Utility(board) = (IF HasLine(board, X) THEN 1
                      ELSE IF HasLine(board, O) THEN -1
                      ELSE 0)

\* C17: on a board reached by alternating legal moves minimax(board) is None
\* if the board is terminal, and otherwise an empty cell after which the
\* game value is the game value of the board; the side that plays minimax's
\* moves from the empty board on never loses.  The game values are compared
\* on the boards with at most MaxOpen empty cells.
C17_MinimaxOptimalNeverLoses ==
    /\ IF Terminal(board)
       THEN Minimax(board) = {EMPTY}
       ELSE (Player(board) = aiSide /\ Cardinality(Actions(board)) <= MaxOpen) =>
                LET value == GameValue(board) IN
                \A move \in Minimax(board) :
                    /\ move \in Actions(board)
                    /\ GameValue(Result(board, move)) = value
    /\ Terminal(board) => Winner(board) \in {aiSide, EMPTY}

\* C18: after any sequence of add_knowledge(cell, count) calls on cells
\* without a mine, with the true counts of a fixed board, every cell of
\* ai.mines is a mine, no cell of ai.safes is a mine, every sentence of
\* ai.knowledge has exactly count mines among its cells, and make_safe_move
\* never returns a mine.
C18_AiSound ==
    /\ ai.mines \subseteq field.mines
    /\ ai.safes \cap field.mines = {}
    /\ \A k \in 1..Len(ai.knowledge) :
            Cardinality(ai.knowledge[k].cells \cap field.mines)
                = ai.knowledge[k].count
    /\ MakeSafeMove(ai) \cap field.mines = {}

\* the AI has found a mine, knows a safe cell it has not been told about,
\* and still holds a sentence it cannot resolve
C18_Witness ==
    /\ ai.calls > 0
    /\ ai.mines # {}
    /\ ai.safes \ ai.moves_made # {}
    /\ \E k \in 1..Len(ai.knowledge) :
            /\ ai.knowledge[k].count > 0
            /\ Cardinality(ai.knowledge[k].cells) > ai.knowledge[k].count

\* enforce_node_consistency() has returned
NodeConsistencyDone == pc \notin {"new", "enforce"} \/ (pc = "enforce" /\ todo = {})

\* C21: domains only ever shrink: in every step of solve() the new domain of
\* each variable is a subset of its previous domain, and once
\* enforce_node_consistency has run no domain contains a word whose length
\* differs from its variable's length.
C21_DomainsOnlyShrink ==
    [][/\ \A v \in crossword.variables : domains'[v] \subseteq domains[v]
       /\ NodeConsistencyDone' =>
            \A v \in crossword.variables :
                \A w \in domains'[v] : Len(w) = v.length]_vars

\* the search is running on domains that node consistency and revise have
\* both cut: a variable lost a word of the wrong length and a word of the
\* right length, and still has one
C21_Witness ==
    /\ pc = "loop"
    /\ \E v \in crossword.variables :
        /\ domains[v] # {}
        /\ domains[v] # NodeConsistentWords(v)
        /\ NodeConsistentWords(v) # crossword.words

\* C22: unsatisfiability is an ordinary outcome: for every puzzle, also one
\* with a slot that has no word of its length and one whose crossing slots
\* have no agreeing pair of words, solve() terminates by returning None or
\* an assignment and never ends in an error state.
C22_SolveReturnsWithoutError ==
    /\ [](pc # "error")
    /\ <>(pc = "done" /\ result.tag \in {"None", "assignment"})

\* solve() returned None for a puzzle with two crossing slots that both have
\* words of their length, none of them agreeing at the overlap
C22_Witness ==
    /\ pc = "done"
    /\ result.tag = "None"
    /\ \E x, y \in crossword.variables :
        /\ x # y
        /\ Overlap(x, y) # None
        /\ NodeConsistentWords(x) # {}
        /\ NodeConsistentWords(y) # {}
        /\ \A wx \in NodeConsistentWords(x) :
            \A wy \in NodeConsistentWords(y) : ~Agree(x, wx, y, wy)

\* C23: solve() run twice in succession on the same solver gives results
\* that are each valid: the second run returns None exactly when the first
\* did, and any assignment it returns is complete and consistent.
C23_SecondRunValid ==
    (pc = "done" /\ firstResult.tag # "pending") =>
        /\ (result.tag = "None") <=> (firstResult.tag = "None")
        /\ firstResult.tag = "assignment" => IsSolution(firstResult.value)
        /\ result.tag = "assignment" => IsSolution(result.value)

\* both runs returned an assignment, and not the same one
C23_Witness ==
    /\ pc = "done"
    /\ firstResult.tag = "assignment"
    /\ result.tag = "assignment"
    /\ result.value # firstResult.value

\* the domains enforce_node_consistency leaves do not depend on the order
\* the words were visited in
OrderIndependent ==
    \A v \in crossword.variables :
        \A order \in Orders(crossword.words) :
            domains[v] = NodeConsistentDomain(v, crossword.words, order)

\* C24: enforce_node_consistency is idempotent and order-independent:
\* applying it a second time changes no domain, and the resulting domains
\* are the same whatever order the variables and the words of each domain
\* are visited in.
C24_NodeConsistencyIdempotent ==
    [][/\ (pc = "enforce" /\ firstResult.tag # "pending") => domains' = domains
       /\ (pc' = "enforce" /\ todo' = {} /\ firstResult'.tag = "pending")
            => OrderIndependent']_vars

\* enforce_node_consistency has run a second time, on a puzzle in which its
\* first run removed words from a domain and kept others
C24_Witness ==
    /\ pc = "enforce"
    /\ todo = {}
    /\ firstResult.tag # "pending"
    /\ \E v \in crossword.variables :
        /\ domains[v] # {}
        /\ NodeConsistentWords(v) # crossword.words

\* the backtrack calls that have not returned: one frame for each call that
\* went on to select a variable, and the call that is just being entered
ActiveCalls == Len(stack) + (IF pc = "backtrack" THEN 1 ELSE 0)

\* C25: the recursion depth of backtrack is bounded by the number of
\* variables: every recursive call is made with an assignment that binds
\* exactly one more variable than its caller's, a call with a complete
\* assignment returns without recursing, and the number of nested recursive
\* calls below the top-level backtrack({}) never exceeds the number of
\* variables.
C25_RecursionDepthBounded ==
    /\ \A k \in 1..Len(stack) :
        /\ Cardinality(DOMAIN stack[k].entry) = k - 1
        /\ ~AssignmentComplete(stack[k].entry)
    /\ pc = "backtrack" => Cardinality(DOMAIN assignment) = Len(stack)
    /\ ActiveCalls > 0 => ActiveCalls - 1 <= Cardinality(crossword.variables)

\* backtrack is entered with a complete assignment of a puzzle with three
\* slots: as many nested recursive calls as there are variables
C25_Witness ==
    /\ pc = "backtrack"
    /\ AssignmentComplete(assignment)
    /\ Cardinality(crossword.variables) = 3
    /\ ActiveCalls - 1 = Cardinality(crossword.variables)

\* the elements of a list
Range(list) == {list[k] : k \in 1..Len(list)}

\* C26: in ac3 arcs are taken from the front of the queue in order; when
\* revise(x, y) on the popped arc removed a word and domain(x) is still
\* non-empty, exactly the arcs (n, x) for every neighbor n of x other than y
\* are appended to the back of the queue; when revise made no change
\* nothing is appended; when domain(x) became empty ac3 returns False at
\* once without processing the rest of the queue.
C26_QueueDiscipline ==
    [][(pc = "ac3" /\ queue # <<>>) =>
        LET x == Head(queue)[1]
            y == Head(queue)[2]
            rest == Tail(queue)
            appended == SubSeq(queue', Len(rest) + 1, Len(queue'))
        IN  /\ lastRevise'.called
            /\ lastRevise'.x = x /\ lastRevise'.y = y
            /\ lastRevise'.before = domains
            /\ IF ~lastRevise'.revised
               THEN queue' = rest /\ pc' = "ac3"
               ELSE IF domains'[x] = {}
               THEN pc' = "ac3_return" /\ ac3ret' = "False"
               ELSE /\ pc' = "ac3"
                    /\ Len(queue') >= Len(rest)
                    /\ SubSeq(queue', 1, Len(rest)) = rest
                    /\ Range(appended) = {<<n, x>> : n \in Neighbors(x) \ {y}}
                    /\ Len(appended) = Cardinality(Neighbors(x) \ {y})]_vars

\* revise(x, y) removed a word and left others, and the arcs of the other
\* neighbors of x were appended behind arcs that were still waiting
C26_Witness ==
    /\ pc = "ac3"
    /\ lastRevise.called
    /\ lastRevise.revised
    /\ domains[lastRevise.x] # {}
    /\ Neighbors(lastRevise.x) \ {lastRevise.y} # {}
    /\ Len(queue) > Cardinality(Neighbors(lastRevise.x) \ {lastRevise.y})
    /\ queue[Len(queue)][2] = lastRevise.x

\* C27: revise(x, y) modifies nothing but domain(x): domain(y), the domain
\* of every other variable, the overlap table of the puzzle and any
\* assignment are unchanged by the call, whether or not a word is removed.
C27_ReviseFrame ==
    [][(pc = "ac3" /\ queue # <<>>) =>
        /\ \A v \in crossword.variables \ {Head(queue)[1]} :
                domains'[v] = domains[v]
        /\ DOMAIN domains' = DOMAIN domains
        /\ crossword' = crossword
        /\ assignment' = assignment
        /\ lastRevise'.after = domains']_vars

\* revise(x, y) removed a word of x in a puzzle with three slots, all of
\* them with candidates left
C27_Witness ==
    /\ lastRevise.called
    /\ lastRevise.revised
    /\ Cardinality(crossword.variables) = 3
    /\ \A v \in crossword.variables : lastRevise.after[v] # {}
    /\ domains = lastRevise.after

\* the complete consistent assignments of the puzzle
Solutions ==
    {f \in [crossword.variables -> crossword.words] : IsSolution(f)}

\* C28: pruning never discards a solution: for every complete consistent
\* assignment S of the puzzle and every variable v, the word S(v) is still
\* in domain(v) after enforce_node_consistency and after every ac3 call made
\* during solve(), the initial one and those seeded inside backtrack.
C28_PruningKeepsSolutions ==
    \A S \in Solutions :
        \A v \in crossword.variables : S[v] \in domains[v]

\* an ac3 call seeded inside backtrack has returned on a puzzle that has a
\* solution, with a domain that lost a word of the right length
C28_Witness ==
    /\ pc = "ac3_return"
    /\ caller = "backtrack"
    /\ Solutions # {}
    /\ \E v \in crossword.variables : domains[v] # NodeConsistentWords(v)

====
